---- MODULE Spec2Model ----
(***************************************************************************)
(* Model of sanic_openapi/doc.py: the Field hierarchy and its serialize()  *)
(* methods, the recursive resolver serialize_schema, the module-level       *)
(* `definitions` registry filled by Object.__init__, and the route          *)
(* documenters that accumulate RouteSpec records in `route_specs`.          *)
(*                                                                          *)
(* Python values are tagged records: None, Str, Bool, PyList, PyTuple,      *)
(* PyDict (insertion-ordered <<key, value>> pairs), TypeRef (a class used   *)
(* as a value), Other (an instance of any other type), and Field instances  *)
(* (records with a `kind`).  A mapping returned by serialize() is a         *)
(* function from key to value; a raised exception is [raise |-> name].      *)
(***************************************************************************)
EXTENDS Integers, Sequences, FiniteSets, TLC

VARIABLES definitions, objs, op, result,
          route_specs, heap, napplied, returned, given

vars == <<definitions, objs, op, result, route_specs, heap, napplied, returned, given>>

fieldVars == <<definitions, objs, op, result>>
routeVars == <<route_specs, heap, napplied, returned, given>>

-----------------------------------------------------------------------------
(* Python values                                                           *)

None == [none |-> TRUE]
Str(s) == [str |-> s]
Bool(b) == [bool |-> b]
PyList(s) == [list |-> s]
PyTuple(s) == [tuple |-> s]
PyDict(pairs) == [dict |-> pairs]
TypeRef(t) == [ref |-> t]
Other(x) == [other |-> x]
Num(n) == [num |-> n]

IsNone(v) == "none" \in DOMAIN v
IsTypeRef(v) == "ref" \in DOMAIN v
IsField(v) == "kind" \in DOMAIN v
IsPyDict(v) == "dict" \in DOMAIN v
IsPyList(v) == "list" \in DOMAIN v

\* Python truth value of an object (the `if x:` and `x or y` tests).
Truthy(v) ==
    IF IsNone(v) THEN FALSE
    ELSE IF "str" \in DOMAIN v THEN v.str # ""
    ELSE IF "bool" \in DOMAIN v THEN v.bool
    ELSE IF IsPyList(v) THEN Len(v.list) > 0
    ELSE IF "tuple" \in DOMAIN v THEN Len(v.tuple) > 0
    ELSE IF IsPyDict(v) THEN Len(v.dict) > 0
    ELSE TRUE

Or(a, b) == IF Truthy(a) THEN a ELSE b

EmptyMap == [k \in {} |-> TRUE]
Raise(e) == [raise |-> e]
IsRaise(r) == "raise" \in DOMAIN r

-----------------------------------------------------------------------------
(* User-defined classes that descriptors may refer to                      *)

UserClasses == {"User", "UserV2", "Order"}

\* cls.__name__ ; User and UserV2 are two distinct classes both named User.
ClassName(c) == IF c = "Order" THEN "Order" ELSE "User"

\* cls.__dict__.items(), in declaration order.
ClassDict(c) ==
    IF c = "User" THEN
        << <<"__module__", Str("app")>>, <<"id", TypeRef("int")>>,
           <<"name", TypeRef("str")>>, <<"__doc__", None>> >>
    ELSE IF c = "UserV2" THEN
        << <<"__module__", Str("app.v2")>>, <<"id", TypeRef("int")>>,
           <<"email", TypeRef("str")>>, <<"__doc__", None>> >>
    ELSE
        << <<"__module__", Str("app")>>, <<"user", TypeRef("User")>>,
           <<"total", TypeRef("float")>>, <<"_cache", PyDict(<<>>)>>,
           <<"__doc__", None>> >>

\* key.startswith("_") over the attribute names above.
StartsWithUnderscore(key) == key \in {"__module__", "__doc__", "_cache"}

-----------------------------------------------------------------------------
(* Field constructors                                                      *)

FieldInit(kind, description, required, name, default, enum, indata) ==
    [kind |-> kind, name |-> name, description |-> description,
     required |-> required, default |-> default, enum |-> enum,
     indata |-> indata]

\* Integer.__init__ / Float.__init__ : the enum argument is accepted but
\* only description, required, name and default reach Field.__init__.
NumberInit(kind, description, required, name, default, enum, minimum, maximum) ==
    FieldInit(kind, description, required, name, default, None, None)
        @@ [minimum |-> minimum, maximum |-> maximum]

TupleInit(description) ==
    FieldInit("Tuple", description, None, None, None, None, None)

DictionaryInit(fields, description, required, name, default, enum, indata) ==
    FieldInit("Dictionary", description, required, name, default, enum, indata)
        @@ [fields |-> Or(fields, PyDict(<<>>)).dict]

ListInit(items, description, required, name, default, enum, indata) ==
    LET it == Or(items, PyList(<<>>))
    IN  FieldInit("List", description, required, name, default, enum, indata)
            @@ [items |-> IF IsPyList(it) THEN it.list ELSE <<it>>]

\* schema() for a Field subclass called with no arguments.
NoArgInit(kind) ==
    IF kind \in {"Integer", "Float"}
      THEN NumberInit(kind, None, None, None, None, None, None, None)
    ELSE IF kind = "Dictionary"
      THEN DictionaryInit(None, None, None, None, None, None, None)
    ELSE IF kind = "List"
      THEN ListInit(None, None, None, None, None, None, None)
    ELSE FieldInit(kind, None, None, None, None, None, None)

-----------------------------------------------------------------------------
(* serialize()                                                             *)

\* Field.serialize
FieldSerialize(self) ==
    (IF Truthy(self.name) THEN [name |-> self.name] ELSE EmptyMap)
 @@ (IF Truthy(self.description) THEN [description |-> self.description] ELSE EmptyMap)
 @@ (IF ~IsNone(self.required) THEN [required |-> self.required] ELSE EmptyMap)
 @@ (IF ~IsNone(self.default) THEN [default |-> self.default] ELSE EmptyMap)
 @@ (IF ~IsNone(self.enum) THEN [enum |-> self.enum] ELSE EmptyMap)
 @@ (IF ~IsNone(self.indata) THEN ("in" :> self.indata) ELSE EmptyMap)

\* {**a, **b}: keys of b win.
Merge(a, b) == b @@ a

NumberSerialize(self) ==
    LET addition ==
            (IF ~IsNone(self.minimum) THEN [minimum |-> self.minimum] ELSE EmptyMap)
         @@ (IF ~IsNone(self.maximum) THEN [maximum |-> self.maximum] ELSE EmptyMap)
        head == IF self.kind = "Integer"
                  THEN [type |-> "integer", format |-> "int64"]
                  ELSE [type |-> "number", format |-> "float"]
    IN  Merge(Merge(head, addition), FieldSerialize(self))

LeafType(kind) ==
    CASE kind = "File" -> "file"
      [] kind = "String" -> "string"
      [] kind = "Boolean" -> "boolean"
      [] kind = "Date" -> "date"
      [] kind = "DateTime" -> "dateTime"

ObjectSerialize(self) ==
    Merge(("$ref" :> ("#/definitions/" \o self.object_name)), FieldSerialize(self))

IsRegistered(defs, cls) == \E i \in 1..Len(defs) : defs[i].cls = cls

FieldSubclasses == {"Field", "Integer", "File", "String", "Float", "Boolean",
                    "Tuple", "Date", "DateTime", "Dictionary", "List", "Object"}

RECURSIVE Serialize(_, _)
RECURSIVE serialize_schema(_, _)
RECURSIVE SerializeItems(_, _, _)
RECURSIVE ObjectInit(_, _, _, _, _, _, _, _, _)

\* One item of the comprehension resolved to r: an exception abandons the
\* rest, otherwise the key is bound and the remaining items follow.
ItemsStep(pairs, acc, r) ==
    IF IsRaise(r.ret) THEN r
    ELSE SerializeItems(Tail(pairs), (pairs[1][1] :> r.ret) @@ acc, r.defs)

\* {key: serialize_schema(schema) for key, schema in pairs}, left to right.
SerializeItems(pairs, acc, defs) ==
    IF pairs = <<>> THEN [ret |-> acc, defs |-> defs]
    ELSE ItemsStep(pairs, acc, serialize_schema(pairs[1][2], defs))

\* {"type": "object", "properties": props, **Field.serialize(self)}
ObjectSchema(self, props) ==
    IF IsRaise(props.ret) THEN props
    ELSE [ret |-> Merge([type |-> "object", properties |-> props.ret],
                        FieldSerialize(self)),
          defs |-> props.defs]

\* {"type": "array", "items": items}
ArraySchema(items) ==
    IF IsRaise(items.ret) THEN items
    ELSE [ret |-> [type |-> "array", items |-> items.ret], defs |-> items.defs]

\* Object.definition
ObjectDefinition(self, defs) ==
    ObjectSchema(self,
                 SerializeItems(SelectSeq(ClassDict(self.cls),
                                          LAMBDA p : ~StartsWithUnderscore(p[1])),
                                EmptyMap, defs))

\* definitions[cls] = entry, keeping the position of an existing key.
StoreEntry(defs, entry) ==
    IF IsRegistered(defs, entry.cls)
      THEN [i \in 1..Len(defs) |->
              IF defs[i].cls = entry.cls THEN entry ELSE defs[i]]
      ELSE Append(defs, entry)

\* definitions[self.cls] = (self, d) once the definition d is computed.
Register(self, d) ==
    IF IsRaise(d.ret) THEN d
    ELSE [ret |-> self,
          defs |-> StoreEntry(d.defs, [cls |-> self.cls, obj |-> self,
                                       definition |-> d.ret])]

\* The instance Object.__init__ initialises.
ObjectSelf(cls, object_name, description, required, name, default, enum, indata) ==
    FieldInit("Object", description, required, name, default, enum, indata)
        @@ [cls |-> cls, object_name |-> Or(object_name, Str(ClassName(cls))).str]

\* Object.__init__ without the `not in definitions` test: every construction
\* recomputes the definition and stores its own pair.
ObjectInitOverwrite(cls, object_name, description, required, name, default, enum, indata, defs) ==
    Register(ObjectSelf(cls, object_name, description, required, name, default,
                        enum, indata),
             ObjectDefinition(ObjectSelf(cls, object_name, description, required,
                                         name, default, enum, indata), defs))

\* Object.__init__
ObjectInit(cls, object_name, description, required, name, default, enum, indata, defs) ==
    IF IsRegistered(defs, cls)
      THEN [ret |-> ObjectSelf(cls, object_name, description, required, name,
                               default, enum, indata),
            defs |-> defs]
      ELSE Register(ObjectSelf(cls, object_name, description, required, name,
                               default, enum, indata),
                    ObjectDefinition(ObjectSelf(cls, object_name, description,
                                                required, name, default, enum,
                                                indata), defs))

\* serialize() of the variants that return without resolving anything.
PlainSerialize(self) ==
    IF self.kind \in {"Integer", "Float"} THEN NumberSerialize(self)
    ELSE IF self.kind \in {"File", "String", "Boolean", "Date", "DateTime"}
      THEN Merge([type |-> LeafType(self.kind)], FieldSerialize(self))
    ELSE IF self.kind = "Object" THEN ObjectSerialize(self)
    ELSE FieldSerialize(self)

\* serialize() in which a List of several items resolves each of them instead
\* of handing the raw list to Tuple.
SerializeResolvingTuple(self, defs) ==
    IF self.kind = "Dictionary"
      THEN ObjectSchema(self, SerializeItems(self.fields, EmptyMap, defs))
    ELSE IF self.kind = "List" /\ Len(self.items) > 1
      THEN ArraySchema(SerializeItems([i \in 1..Len(self.items) |->
                                         <<"item", self.items[i]>>],
                                      EmptyMap, defs))
    ELSE IF self.kind = "List" /\ Len(self.items) > 0
      THEN ArraySchema(serialize_schema(self.items[1], defs))
    ELSE IF self.kind = "List"
      THEN [ret |-> Raise("UnboundLocalError"), defs |-> defs]
    ELSE [ret |-> PlainSerialize(self), defs |-> defs]

\* self.serialize(), dispatched on the class of self.
Serialize(self, defs) ==
    IF self.kind = "Dictionary"
      THEN ObjectSchema(self, SerializeItems(self.fields, EmptyMap, defs))
    ELSE IF self.kind = "List" /\ Len(self.items) > 1
      THEN ArraySchema([ret |-> PlainSerialize(TupleInit(PyList(self.items))),
                        defs |-> defs])
    ELSE IF self.kind = "List" /\ Len(self.items) > 0
      THEN ArraySchema(serialize_schema(self.items[1], defs))
    ELSE IF self.kind = "List"
      THEN [ret |-> Raise("UnboundLocalError"), defs |-> defs]
    ELSE [ret |-> PlainSerialize(self), defs |-> defs]

\* The field serialize_schema serializes for a schema that is not a
\* user-defined class: schema() for a Field subclass (Object() lacks its cls
\* argument), the Field standing for a builtin type, the Field instance
\* itself, or a Dictionary / List wrapped around a dict / list instance;
\* NoField when no branch applies.
NoField == [nofield |-> TRUE]

FieldFor(schema) ==
    IF IsTypeRef(schema) THEN
        IF schema.ref \in FieldSubclasses THEN
            IF schema.ref = "Object" THEN Raise("TypeError")
            ELSE NoArgInit(schema.ref)
        ELSE IF schema.ref = "dict" THEN NoArgInit("Dictionary")
        ELSE IF schema.ref = "list" THEN NoArgInit("List")
        ELSE IF schema.ref = "int" THEN NoArgInit("Integer")
        ELSE IF schema.ref = "str" THEN NoArgInit("String")
        ELSE IF schema.ref = "bool" THEN NoArgInit("Boolean")
        ELSE IF schema.ref = "float" THEN NoArgInit("Float")
        ELSE IF schema.ref = "date" THEN NoArgInit("Date")
        ELSE NoArgInit("DateTime")
    ELSE IF IsField(schema) THEN schema
    ELSE IF IsPyDict(schema)
      THEN DictionaryInit(schema, None, None, None, None, None, None)
    ELSE IF IsPyList(schema)
      THEN ListInit(schema, None, None, None, None, None, None)
    ELSE NoField

BuiltinTypes == {"dict", "list", "int", "str", "bool", "float", "date", "datetime"}

\* Object(schema).serialize(), or the exception Object(schema) raised.
SerializeBuilt(built) ==
    IF IsRaise(built.ret) THEN built
    ELSE IF built.ret = NoField THEN [ret |-> EmptyMap, defs |-> built.defs]
    ELSE Serialize(built.ret, built.defs)

serialize_schema(schema, defs) ==
    IF IsTypeRef(schema) /\ schema.ref \notin FieldSubclasses \cup BuiltinTypes
      THEN SerializeBuilt(ObjectInit(schema.ref, None, None, None, None, None,
                                     None, None, defs))
      ELSE SerializeBuilt([ret |-> FieldFor(schema), defs |-> defs])

-----------------------------------------------------------------------------
(* Route documenters                                                       *)

Handlers == {"f", "g"}

\* class RouteSpec: every class attribute is None; tags refers to a list.
RouteSpecDefault(tagsRef) ==
    [consumes |-> None, consumes_content_type |-> None, produces |-> None,
     produces_content_type |-> None, summary |-> None, description |-> None,
     operation |-> None, blueprint |-> None, tags |-> tagsRef, hide |-> None,
     produces_description |-> None, produces_examples |-> None,
     headers |-> None]

\* RouteSpec without the assignment in __init__: every record sees the one
\* list held by the class attribute.
RouteSpecInitShared(hp) ==
    [spec |-> RouteSpecDefault(1),
     heap |-> IF hp = <<>> THEN << <<>> >> ELSE hp]

\* RouteSpec.__init__ : self.tags = [] allocates a new list object.
RouteSpecInit(hp) ==
    [spec |-> RouteSpecDefault(Len(hp) + 1), heap |-> Append(hp, <<>>)]

\* route_specs[func] on the defaultdict(RouteSpec).
Lookup(st, func) ==
    IF func \in DOMAIN st.specs THEN st
    ELSE LET n == RouteSpecInit(st.heap)
         IN  [specs |-> (func :> n.spec) @@ st.specs, heap |-> n.heap]

\* route_specs[func].<fld> = v
SetAttr(st, func, fld, v) ==
    LET s == Lookup(st, func)
    IN  [s EXCEPT !.specs = [@ EXCEPT ![func] = [@ EXCEPT ![fld] = v]]]

SetIfGiven(st, func, fld, v) ==
    IF ~IsNone(v) THEN SetAttr(st, func, fld, v) ELSE st

\* args[0] if len(args) == 1 else args
Collapse(args) == IF Len(args) = 1 THEN args[1] ELSE PyTuple(args)

route(st, func, kw) ==
    LET s0 == Lookup(st, func)
        s1 == SetIfGiven(s0, func, "summary", kw.summary)
        s2 == SetIfGiven(s1, func, "description", kw.description)
        s3 == SetIfGiven(s2, func, "consumes", kw.consumes)
        s4 == SetIfGiven(s3, func, "produces", kw.produces)
        s5 == SetIfGiven(s4, func, "consumes_content_type", kw.consumes_content_type)
        s6 == SetIfGiven(s5, func, "produces_content_type", kw.produces_content_type)
        s7 == SetIfGiven(s6, func, "hide", kw.hide)
    IN  SetIfGiven(s7, func, "headers", kw.headers)

summary(st, func, text) == SetAttr(st, func, "summary", text)

description(st, func, text) == SetAttr(st, func, "description", text)

consumes(st, func, args, content_type) ==
    IF Len(args) > 0
      THEN SetAttr(SetAttr(st, func, "consumes", Collapse(args)),
                   func, "consumes_content_type", content_type)
      ELSE st

produces(st, func, args, descr, content_type, examples) ==
    IF Len(args) > 0
      THEN LET s1 == SetAttr(st, func, "produces", Collapse(args))
               s2 == SetAttr(s1, func, "produces_content_type", content_type)
               s3 == SetAttr(s2, func, "produces_description", descr)
           IN  SetAttr(s3, func, "produces_examples", examples)
      ELSE st

\* tag() that assigns a one-element list instead of appending.
tagReplaces(st, func, name) ==
    LET s == Lookup(st, func)
        r == s.specs[func].tags
    IN  [s EXCEPT !.heap = [@ EXCEPT ![r] = <<name>>]]

\* route_specs[func].tags.append(name): mutates the list the record refers to.
tag(st, func, name) ==
    LET s == Lookup(st, func)
        r == s.specs[func].tags
    IN  [s EXCEPT !.heap = [@ EXCEPT ![r] = Append(@, name)]]

hide(st, func) == SetAttr(st, func, "hide", Bool(TRUE))

headers(st, func, args) ==
    IF Len(args) > 0 THEN SetAttr(st, func, "headers", Collapse(args)) ELSE st

-----------------------------------------------------------------------------
(* Bounds and inputs                                                       *)

MaxApply == 3
MaxObjects == 2

Texts == {Str("A"), Str("B")}
TagNames == {"x", "y"}
ContentTypes == {None, Str("application/json")}

\* produces(*args) with its keywords left at their defaults, and with all
\* three keywords passed.
ProducesKeywords ==
    {[description |-> Str(""), content_type |-> None, examples |-> None],
     [description |-> Str("OK"), content_type |-> Str("application/json"),
      examples |-> Other("example")]}
ArgLists == {<<>>, <<TypeRef("int")>>, <<TypeRef("int"), TypeRef("User")>>}

RouteKeywords == {"summary", "description", "consumes", "produces",
                  "consumes_content_type", "produces_content_type", "hide",
                  "headers"}

KeywordValue(k) ==
    CASE k = "summary" -> Str("S")
      [] k = "description" -> Str("D")
      [] k = "consumes" -> TypeRef("str")
      [] k = "produces" -> TypeRef("User")
      [] k = "consumes_content_type" -> Str("text/plain")
      [] k = "produces_content_type" -> Str("text/plain")
      [] k = "hide" -> Bool(FALSE)
      [] k = "headers" -> TypeRef("dict")

\* route(**kw) with the keywords in `set` passed and the others left absent.
RouteCall(set) == [k \in RouteKeywords |-> IF k \in set THEN KeywordValue(k) ELSE None]

\* route() with no keyword, with exactly one keyword, and with all of them.
RouteCalls == {RouteCall(set) : set \in {t \in SUBSET RouteKeywords :
                                             Cardinality(t) \in {0, 1, 8}}}

-----------------------------------------------------------------------------
(* Route documenter actions                                                *)

State == [specs |-> route_specs, heap |-> heap]

NoGiven == [tags |-> <<>>, summary |-> None, description |-> None]

GivenOf(func) == IF func \in DOMAIN given THEN given[func] ELSE NoGiven

\* Apply one decorator to func: st is the registry after it ran, g what the
\* caller passed for tags / summary / description so far.
Apply(func, st, g) ==
    /\ napplied < MaxApply
    /\ napplied' = napplied + 1
    /\ route_specs' = st.specs
    /\ heap' = st.heap
    /\ returned' = func
    /\ given' = (func :> g) @@ given
    /\ UNCHANGED fieldVars

Get(func) ==
    Apply(func, Lookup(State, func), GivenOf(func))

Route(func, kw) ==
    Apply(func, route(State, func, kw),
          [GivenOf(func) EXCEPT
             !.summary = IF IsNone(kw.summary) THEN @ ELSE kw.summary,
             !.description = IF IsNone(kw.description) THEN @ ELSE kw.description])

Summary(func, text) ==
    Apply(func, summary(State, func, text),
          [GivenOf(func) EXCEPT !.summary = text])

Description(func, text) ==
    Apply(func, description(State, func, text),
          [GivenOf(func) EXCEPT !.description = text])

Consumes(func, args, content_type) ==
    Apply(func, consumes(State, func, args, content_type),
          GivenOf(func))

Produces(func, args, kw) ==
    Apply(func, produces(State, func, args, kw.description, kw.content_type,
                         kw.examples),
          GivenOf(func))

Tag(func, name) ==
    Apply(func, tag(State, func, name),
          [GivenOf(func) EXCEPT !.tags = Append(@, name)])

Hide(func) == Apply(func, hide(State, func), GivenOf(func))

Headers(func, args) ==
    Apply(func, headers(State, func, args), GivenOf(func))

NoOp == [name |-> "import", arg |-> None]

Init ==
    /\ definitions = <<>>
    /\ objs = {}
    /\ op = NoOp
    /\ result = None
    /\ route_specs = EmptyMap
    /\ heap = <<>>
    /\ napplied = 0
    /\ returned = ""
    /\ given = EmptyMap

NextRoutes ==
    \/ \E func \in Handlers : Get(func)
    \/ \E func \in Handlers, kw \in RouteCalls : Route(func, kw)
    \/ \E func \in Handlers, text \in Texts : Summary(func, text)
    \/ \E func \in Handlers, text \in Texts : Description(func, text)
    \/ \E func \in Handlers, args \in ArgLists, ct \in ContentTypes :
          Consumes(func, args, ct)
    \/ \E func \in Handlers, args \in ArgLists, kw \in ProducesKeywords :
          Produces(func, args, kw)
    \/ \E func \in Handlers, name \in TagNames : Tag(func, name)
    \/ \E func \in Handlers : Hide(func)
    \/ \E func \in Handlers, args \in ArgLists : Headers(func, args)

SpecRoutes == Init /\ [][NextRoutes]_vars

-----------------------------------------------------------------------------
(* Object construction, serialize() and serialize_schema() as steps        *)

\* Object(cls, required=..., object_name=...) as written at a usage site.
ObjectCalls ==
    [cls : UserClasses, object_name : {None, Str("Alias")},
     required : {None, Bool(TRUE)}]

Kw(v) == DictionaryInit(v, None, None, None, None, None, None)
Ls(v) == ListInit(v, None, None, None, None, None, None)

\* Fields a caller has already built: containers over classes not wrapped
\* by hand, and the Object instances constructed so far.
BuiltFields ==
    { Kw(PyDict(<< <<"owner", TypeRef("User")>>, <<"count", TypeRef("int")>> >>)),
      Kw(PyDict(<< <<"order", TypeRef("Order")>> >>)),
      Ls(PyList(<<TypeRef("UserV2")>>)),
      Ls(PyList(<<TypeRef("User"), TypeRef("UserV2")>>)),
      Ls(TypeRef("User")),
      NoArgInit("Integer"),
      NoArgInit("Tuple") }
    \cup objs
    \cup { Kw(PyDict(<< <<"ref", o>> >>)) : o \in objs }

Schemas ==
    { TypeRef(c) : c \in UserClasses }
    \cup { TypeRef("int"),
           PyDict(<< <<"user", TypeRef("User")>> >>),
           PyList(<<TypeRef("Order")>>),
           Other("42") }

Called(name, arg, r) ==
    /\ op' = [name |-> name, arg |-> arg]
    /\ result' = r.ret
    /\ definitions' = r.defs
    /\ UNCHANGED routeVars

NewObject(call) ==
    /\ Cardinality(objs) < MaxObjects
    /\ LET r == ObjectInit(call.cls, call.object_name, None, call.required,
                           None, None, None, None, definitions)
       IN  /\ Called("Object", call, r)
           /\ objs' = IF IsRaise(r.ret) THEN objs ELSE objs \cup {r.ret}

SerializeField(f) ==
    /\ Called("serialize", f, Serialize(f, definitions))
    /\ UNCHANGED objs

Resolve(schema) ==
    /\ Called("serialize_schema", schema, serialize_schema(schema, definitions))
    /\ UNCHANGED objs

Next ==
    \/ \E call \in ObjectCalls : NewObject(call)
    \/ \E f \in BuiltFields : SerializeField(f)
    \/ \E schema \in Schemas : Resolve(schema)

Spec == Init /\ [][Next]_vars

-----------------------------------------------------------------------------
(* Definition Registry properties (specification Spec)                     *)

EntryOf(defs, cls) == defs[CHOOSE i \in 1..Len(defs) : defs[i].cls = cls]

\* C1: the registry holds exactly one entry per class ever wrapped in
\* Object; the entry is the (instance, definition) pair stored by the first
\* construction for the class; no later construction or resolve call
\* replaces, changes or removes an entry.
C1_RegistryKeepsFirstEntry ==
    [][ /\ \A i \in 1..Len(definitions) :
              i <= Len(definitions') /\ definitions'[i] = definitions[i]
        /\ \A i, j \in 1..Len(definitions') :
              definitions'[i].cls = definitions'[j].cls => i = j
        /\ \A o \in objs' : IsRegistered(definitions', o.cls)
        /\ (op'.name = "Object" /\ ~IsRegistered(definitions, op'.arg.cls))
              => EntryOf(definitions', op'.arg.cls).obj = result'
      ]_vars

\* A class registered by one usage site and wrapped again by a different one.
C1_Witness ==
    /\ op.name = "Object"
    /\ IsRegistered(definitions, op.arg.cls)
    /\ EntryOf(definitions, op.arg.cls).obj # result
    /\ Cardinality(objs) = 2

\* C4 as stated: serialize() of any constructed field leaves both registries
\* unchanged, also for a Dictionary or List over unregistered classes.
C4_SerializeLeavesRegistries ==
    [][ op'.name = "serialize"
          => /\ definitions' = definitions
             /\ route_specs' = route_specs
             /\ heap' = heap ]_vars

\* C4 amended: serialize() never touches the route registry and never
\* changes or removes a definition; only a Dictionary, or a List of exactly
\* one item, can add definitions, one per user class its nested descriptors
\* resolve that was not registered yet, each stored for a plain Object(cls).
C4_SerializeOnlyAddsDefinitions ==
    [][ op'.name = "serialize"
          => /\ route_specs' = route_specs /\ heap' = heap
             /\ Len(definitions') >= Len(definitions)
             /\ SubSeq(definitions', 1, Len(definitions)) = definitions
             /\ definitions' # definitions
                  => \/ op'.arg.kind = "Dictionary"
                     \/ op'.arg.kind = "List" /\ Len(op'.arg.items) = 1
             /\ \A i \in (Len(definitions) + 1)..Len(definitions') :
                  /\ definitions'[i].cls \in UserClasses
                  /\ ~IsRegistered(definitions, definitions'[i].cls)
                  /\ definitions'[i].obj.object_name = ClassName(definitions'[i].cls)
                  /\ FieldSerialize(definitions'[i].obj) = EmptyMap ]_vars

\* A Dictionary whose serialize() has just registered Order and User.
C4_Witness ==
    /\ op.name = "serialize"
    /\ op.arg.kind = "Dictionary"
    /\ objs = {}
    /\ Len(definitions) = 2
    /\ definitions[2].cls = "Order"

\* The properties a class declares, as the definition is documented to
\* list them.
DeclaredProperties(c) ==
    IF c = "User" THEN
        [id |-> [type |-> "integer", format |-> "int64"],
         name |-> [type |-> "string"]]
    ELSE IF c = "UserV2" THEN
        [id |-> [type |-> "integer", format |-> "int64"],
         email |-> [type |-> "string"]]
    ELSE
        [user |-> ("$ref" :> "#/definitions/User"),
         total |-> [type |-> "number", format |-> "float"]]

\* C8: the definition registered for a class is exactly
\* {type: object, properties: P}, P mapping each public attribute of the
\* class to its resolution, whichever usage site registered the class.
C8_DefinitionIsObjectSchema ==
    \A i \in 1..Len(definitions) :
        definitions[i].definition =
            [type |-> "object",
             properties |-> DeclaredProperties(definitions[i].cls)]

\* C9: the $ref an Object's serialize() emits names the object_name of the
\* registry entry of its class, and no two entries share an object_name.
C9_RefsResolve ==
    /\ (op.name = "serialize" /\ op.arg.kind = "Object")
          => /\ IsRegistered(definitions, op.arg.cls)
             /\ result["$ref"] =
                  "#/definitions/" \o EntryOf(definitions, op.arg.cls).obj.object_name
    /\ \A i, j \in 1..Len(definitions) :
          definitions[i].obj.object_name = definitions[j].obj.object_name => i = j

-----------------------------------------------------------------------------
(* Route Metadata Registry properties (specification SpecRoutes)           *)

RouteFields == DOMAIN RouteSpecDefault(0)

\* A RouteSpec with its tags list read through the reference.
View(specs, hp, h) == [specs[h] EXCEPT !.tags = hp[specs[h].tags]]

Touched(v) == {fld \in RouteFields : v[fld] # RouteSpecDefault(<<>>)[fld]}

\* The fields each documenter may assign.
AnnotationFields ==
    { {"summary"}, {"description"}, {"consumes", "consumes_content_type"},
      {"produces", "produces_content_type", "produces_description",
       "produces_examples"},
      {"tags"}, {"hide"}, {"headers"}, RouteKeywords }

\* C2: no annotation application erases a field it was not given a value
\* for: a field other than tags that holds a value still holds one after any
\* application (no call here passes None explicitly, only by omission).
C2_AbsentNeverErases ==
    [][ \A h \in DOMAIN route_specs : \A fld \in RouteFields \ {"tags"} :
            ~IsNone(route_specs[h][fld]) => ~IsNone(route_specs'[h][fld]) ]_vars

\* C3: each annotation returns its handler; tags is the list of tag names in
\* application order, duplicates kept; summary and description hold the last
\* value given for them and are changed by nothing else.
C3_AnnotationsCompose ==
    /\ napplied > 0 => returned \in Handlers /\ returned \in DOMAIN given
    /\ \A h \in DOMAIN route_specs :
          /\ heap[route_specs[h].tags] = GivenOf(h).tags
          /\ route_specs[h].summary = GivenOf(h).summary
          /\ route_specs[h].description = GivenOf(h).description

\* summary("A"), tag("x"), tag("y") on f.
C3_Witness ==
    /\ "f" \in DOMAIN route_specs
    /\ route_specs["f"].summary = Str("A")
    /\ heap[route_specs["f"].tags] = <<"x", "y">>
    /\ IsNone(route_specs["f"].description)

\* C10: a record created by lookup has its own empty tags list and nothing
\* set but what the annotation being applied assigns; an application to one
\* handler leaves every field of every other handler's record unchanged.
C10_RecordsAreIsolated ==
    [][ /\ \A g \in DOMAIN route_specs :
              g # returned'
                => /\ g \in DOMAIN route_specs'
                   /\ View(route_specs', heap', g) = View(route_specs, heap, g)
        /\ \A h \in DOMAIN route_specs' \ DOMAIN route_specs :
              /\ h = returned'
              /\ \E grp \in AnnotationFields :
                    Touched(View(route_specs', heap', h)) \subseteq grp
              /\ \A g \in DOMAIN route_specs' \ {h} :
                    route_specs'[g].tags # route_specs'[h].tags
      ]_vars

\* g was tagged "y", then f was looked up and tagged "x".
C10_Witness ==
    /\ returned = "f"
    /\ DOMAIN route_specs = {"f", "g"}
    /\ heap[route_specs["f"].tags] = <<"x">>
    /\ heap[route_specs["g"].tags] = <<"y">>

-----------------------------------------------------------------------------
(* Construct-and-serialize and resolve over all variants                   *)
(* (specification SpecSerialize)                                           *)

MaxItems == 2

BaseAttrs == {"name", "description", "required", "default", "enum", "indata"}

AttrValue(a) ==
    CASE a = "name" -> Str("n")
      [] a = "description" -> Str("d")
      [] a = "required" -> Bool(FALSE)
      [] a = "default" -> Str("x")
      [] a = "enum" -> PyList(<<Str("a"), Str("b")>>)
      [] a = "indata" -> Str("query")

\* Keyword arguments of a constructor call; None stands for "not passed".
KeywordSets == {[a \in BaseAttrs |-> IF a \in set THEN AttrValue(a) ELSE None] :
                   set \in SUBSET BaseAttrs}

ItemDescriptors ==
    { TypeRef("int"), TypeRef("User"),
      FieldInit("String", Str("label"), None, None, None, None, None) }

ItemSeqs == UNION {[1..n -> ItemDescriptors] : n \in 0..MaxItems}

\* What a caller may pass as the first argument of List(...).
ListArgs == {None} \cup {PyList(q) : q \in ItemSeqs} \cup ItemDescriptors

\* Arguments of a constructor other than the base attributes; a List gets
\* at least one item here, the empty lists being ListSerialize's inputs.
Extras(kind) ==
    IF kind \in {"Integer", "Float"}
      THEN [minimum : {None, Num(0)}, maximum : {None, Num(9)}]
    ELSE IF kind = "Dictionary"
      THEN {[fields |-> None],
            [fields |-> PyDict(<< <<"id", TypeRef("int")>> >>)]}
    ELSE IF kind = "List"
      THEN {[items |-> a] : a \in {b \in ListArgs : Truthy(b)}}
    ELSE IF kind = "Object" THEN {[cls |-> "User"]}
    ELSE {EmptyMap}

\* Kind(**kw, **extra): Integer and Float have no indata parameter.
New(kind, kw, extra, defs) ==
    IF kind \in {"Integer", "Float"} THEN
        IF ~IsNone(kw.indata) THEN [ret |-> Raise("TypeError"), defs |-> defs]
        ELSE [ret |-> NumberInit(kind, kw.description, kw.required, kw.name,
                                 kw.default, kw.enum, extra.minimum,
                                 extra.maximum),
              defs |-> defs]
    ELSE IF kind = "Dictionary" THEN
        [ret |-> DictionaryInit(extra.fields, kw.description, kw.required,
                                kw.name, kw.default, kw.enum, kw.indata),
         defs |-> defs]
    ELSE IF kind = "List" THEN
        [ret |-> ListInit(extra.items, kw.description, kw.required, kw.name,
                          kw.default, kw.enum, kw.indata),
         defs |-> defs]
    ELSE IF kind = "Object" THEN
        ObjectInit(extra.cls, None, kw.description, kw.required, kw.name,
                   kw.default, kw.enum, kw.indata, defs)
    ELSE [ret |-> FieldInit(kind, kw.description, kw.required, kw.name,
                            kw.default, kw.enum, kw.indata),
          defs |-> defs]

\* Kind(...).serialize() as the first call after import; the instance is
\* not kept.
ConstructAndSerialize(kind, kw, extra) ==
    /\ op = NoOp
    /\ LET n == New(kind, kw, extra, definitions)
       IN  Called("construct", [kind |-> kind, kw |-> kw, extra |-> extra],
                  IF IsRaise(n.ret) THEN n ELSE Serialize(n.ret, n.defs))
    /\ UNCHANGED objs

AllSchemas ==
    { TypeRef(t) : t \in FieldSubclasses \cup UserClasses
                      \cup BuiltinTypes }
    \cup { NoArgInit("String"),
           NumberInit("Integer", None, None, Str("n"), None, None, Num(0), None),
           Kw(PyDict(<< <<"id", TypeRef("int")>> >>)),
           Ls(TypeRef("int")) }
    \cup { PyDict(<<>>), PyDict(<< <<"user", TypeRef("User")>> >>),
           PyList(<<>>), PyList(<<TypeRef("str")>>),
           PyList(<<TypeRef("str"), TypeRef("int")>>) }
    \cup { None, Str("text"), Num(42), Other("object()"),
           PyTuple(<<TypeRef("int")>>) }

\* List(a).serialize() as the first call after import, for every number of
\* items.
ListSerialize(a) ==
    /\ op = NoOp
    /\ Called("List", a, Serialize(Ls(a), definitions))
    /\ UNCHANGED objs

\* serialize_schema(schema) as the first call after import.
ResolveFirst(schema) == op = NoOp /\ Resolve(schema)

NextSerialize ==
    \/ \E kind \in FieldSubclasses \ {"Field"}, kw \in KeywordSets :
          \E extra \in Extras(kind) : ConstructAndSerialize(kind, kw, extra)
    \/ \E a \in ListArgs : ListSerialize(a)
    \/ \E schema \in AllSchemas : ResolveFirst(schema)

SpecSerialize == Init /\ [][NextSerialize]_vars

\* The item sequence a List argument stands for.
ItemsOf(a) == IF IsNone(a) THEN <<>> ELSE IF IsPyList(a) THEN a.list ELSE <<a>>

\* C5: List.serialize() returns an array schema whose items is absent or
\* empty for zero items, resolve(X) for the single item X, and the Tuple of
\* all items, different from every single-item result, for two or more; a
\* single non-list value counts as the one-element list of it.
C5_ListItemCountRule ==
    op.name = "List"
      => LET q == ItemsOf(op.arg)
         IN  /\ ~IsRaise(result)
             /\ result.type = "array"
             /\ Len(q) = 0 => ("items" \notin DOMAIN result \/ result.items = EmptyMap)
             /\ Len(q) = 1 => result.items = serialize_schema(q[1], definitions).ret
             /\ Len(q) > 1 =>
                  /\ result.items = Serialize(TupleInit(PyList(q)), definitions).ret
                  /\ \A i \in 1..Len(q) :
                        result.items # serialize_schema(q[i], definitions).ret

\* C6: serialize_schema returns a mapping and never raises, and an instance
\* that is no Field, mapping or sequence yields the empty mapping.
C6_ResolverNeverRaises ==
    op.name = "serialize_schema"
      => /\ ~IsRaise(result)
         /\ (~IsTypeRef(op.arg) /\ ~IsField(op.arg) /\ ~IsPyDict(op.arg)
               /\ ~IsPyList(op.arg) /\ "tuple" \notin DOMAIN op.arg)
              => result = EmptyMap

\* The keys a variant always emits.
TypeKeys(kind) ==
    CASE kind = "Integer" -> [type |-> "integer", format |-> "int64"]
      [] kind = "Float" -> [type |-> "number", format |-> "float"]
      [] kind = "Dictionary" -> [type |-> "object"]
      [] kind = "List" -> [type |-> "array"]
      [] kind \in {"File", "String", "Boolean", "Date", "DateTime"} ->
            [type |-> LeafType(kind)]
      [] OTHER -> EmptyMap

\* C7: for every variant and every combination of base attributes passed to
\* the constructor, serialize() returns the variant's own keys plus one key
\* per attribute passed (location under "in") and no key for one not passed.
C7_PresentAttributesSerialized ==
    op.name = "construct"
      => /\ ~IsRaise(result)
         /\ \A k \in DOMAIN TypeKeys(op.arg.kind) :
               k \in DOMAIN result /\ result[k] = TypeKeys(op.arg.kind)[k]
         /\ \A a \in BaseAttrs :
               LET key == IF a = "indata" THEN "in" ELSE a
               IN  IF IsNone(op.arg.kw[a]) THEN key \notin DOMAIN result
                   ELSE key \in DOMAIN result /\ result[key] = op.arg.kw[a]

====
